---- MODULE Spec2Model ----
(***************************************************************************)
(* Model of telegram_ring.py: ring_phone (the call session controller) and *)
(* get_g_a_hash (the key-exchange negotiator), run against a platform that *)
(* answers each RPC with a result or an exception.                         *)
(*                                                                         *)
(* Byte strings are modelled at bit granularity: p_bytes is a big-endian   *)
(* sequence of PBits binary digits, and the 256-byte random draw is a      *)
(* number of the same width.                                               *)
(*                                                                         *)
(* Model of pua_transcript_checker.py: retry_request (the retry wrapper)   *)
(* and check_transcript (token fetch, login, transcript fetch, parsing,    *)
(* notification), run against a portal that answers each request with a    *)
(* response or an exception.                                               *)
(***************************************************************************)
EXTENDS Integers, Sequences, FiniteSets, TLC

\* ---------------------------------------------------------------- bounds
PBits == 4
MaxTransient == 2
MaxDuration == 2
MaxAttempts == 2
MaxAccessHash == 2
MaxRetries == 3
MaxRows == 1

\* ------------------------------------------------------------- platform
RpcKinds == {"ResolveIdentity", "FetchDhParameters", "RequestCall", "DiscardCall"}

Targets == {"alice", "mallory"}

\* identities the platform's directory knows
Directory == {"alice"}

UserId(t) == IF t = "alice" THEN 101 ELSE 0

NoCall == [id |-> 0, access_hash |-> 0]

NoDh == [kind |-> "None", p |-> <<>>, g |-> 0]

NotModified == [kind |-> "DhConfigNotModified", p |-> <<>>, g |-> 0]

NoHash == [sha256 |-> <<>>, set |-> FALSE]

NoRequest == [user_id |-> 0, g_a_hash |-> NoHash, video |-> FALSE]

NoDiscard == [peer |-> NoCall, duration |-> -1, reason |-> "None", connection_id |-> -1]

NoReport == [at |-> "none", exc |-> "none"]

\* ------------------------------------------------------ pure functions
RECURSIVE Pow2(_)
Pow2(n) == IF n = 0 THEN 1 ELSE 2 * Pow2(n - 1)

\* int.from_bytes(b, "big")
RECURSIVE FromBytes(_)
FromBytes(b) ==
  IF Len(b) = 0 THEN 0
  ELSE 2 * FromBytes(SubSeq(b, 1, Len(b) - 1)) + b[Len(b)]

\* n.to_bytes(len, "big"); raises OverflowError when n does not fit
ToBytesFits(n, len) == n < Pow2(len)

ToBytes(n, len) == [i \in 1..len |-> (n \div Pow2(len - i)) % 2]

\* pow(g, a, p) for p > 0
RECURSIVE ModPow(_, _, _)
ModPow(g, a, p) == IF a = 0 THEN 1 % p ELSE (g * ModPow(g, a - 1, p)) % p

\* Python's r % m for m # 0 (the result takes the sign of m)
PyMod(r, m) == IF m > 0 THEN r % m ELSE -((-r) % (-m))

\* a = int.from_bytes(secrets.token_bytes(256), "big") % (p - 1) + 1
SecretNoOffset(r, p) == PyMod(r, p - 1)

Secret(r, p) == PyMod(r, p - 1) + 1

\* hashlib.sha256(g_a_bytes).digest(): a value determined by the bytes hashed
Sha256(bytes) == [sha256 |-> bytes, set |-> TRUE]

RandomDraws == 0..(Pow2(PBits) - 1)

AllPBytes == [1..PBits -> {0, 1}]

AllDhConfigs == {[kind |-> "DhConfig", p |-> pb, g |-> g] : pb \in AllPBytes, g \in 0..(Pow2(PBits) - 1)}

\* the parameter sets the platform serves in the ring specification
RingDhValues == {<<11, 2>>, <<11, 1>>, <<11, 10>>, <<11, 0>>, <<9, 3>>, <<1, 2>>, <<0, 2>>}

RingDhConfigs == {[kind |-> "DhConfig", p |-> ToBytes(v[1], PBits), g |-> v[2]] : v \in RingDhValues}

\* ---------------------------------------------------------------- state
VARIABLES
  pc,          \* position of ring_phone / get_g_a_hash
  attempt,     \* number of ring_phone invocations so far
  target_user, \* argument of ring_phone
  duration,    \* argument of ring_phone
  user,        \* resolved entity (0: none)
  dh_config,   \* local of get_g_a_hash
  a,           \* local of get_g_a_hash (0: none)
  g_a,         \* local of get_g_a_hash (-1: none)
  g_a_hash,    \* value returned by get_g_a_hash
  phone_call,  \* result.phone_call: call_id / access_hash
  request,     \* arguments of the last RequestCallRequest issued
  discard,     \* arguments of the last DiscardCallRequest issued
  trace,       \* operations issued in this attempt, in order, with their outcomes
  slept,       \* seconds spent in asyncio.sleep(duration) (-1: not entered)
  reported,    \* exception printed by the except handler
  result,      \* what the caller of ring_phone observes
  transient,   \* platform: transient failures still to come, per RPC
  platformDh,  \* platform: the DH configuration it serves
  nextCallId   \* platform: id of the next call it creates

\* state of pua_transcript_checker.py
VARIABLES
  cpc,           \* position of check_transcript
  rpc,           \* position of retry_request
  method,        \* argument of retry_request
  url,           \* argument of retry_request
  max_retries,   \* argument of retry_request
  retry_attempt, \* loop variable `attempt` of retry_request
  response,      \* value returned by retry_request
  http_log,      \* invocations made by this call of retry_request, with the sleep that followed
  tokens,        \* value returned by get_login_tokens
  html_content,  \* value returned by get_transcripts
  parsed,        \* value returned by parse_transcript_courses
  steps,         \* steps of check_transcript that have returned, in order, with the truth value of what they returned
  telegram,      \* TELEGRAM_BOT_TOKEN and TELEGRAM_CHAT_ID are both set
  posts,         \* sendMessage requests posted in this check, with their outcome
  found          \* value returned by check_transcript

ringVars == <<pc, attempt, target_user, duration, user, dh_config, a, g_a, g_a_hash,
              phone_call, request, discard, trace, slept, reported, result,
              transient, platformDh, nextCallId>>

retryVars == <<rpc, method, url, max_retries, retry_attempt, response, http_log>>

checkVars == <<cpc, tokens, html_content, parsed, steps, telegram, posts, found>>

checkerVars == <<retryVars, checkVars>>

vars == <<ringVars, checkerVars>>

\* ------------------------------------------------ portal and its pages
\* max_retries=3, the default of retry_request
DefaultMaxRetries == 3

LOGIN_URL == "/SelfService/Login.aspx?ReturnUrl=Transcripts.aspx"

TRANSCRIPT_URL == "/SelfService/Records/Transcripts.aspx"

\* the hidden inputs get_login_tokens looks for
TokenNames == {"__VIEWSTATE", "__VIEWSTATEGENERATOR", "__EVENTVALIDATION", "__RequestVerificationToken"}

\* a table row of a semester section: a course row, a row of fewer than
\* four cells, a row whose first cell is empty
RowKinds == {"course", "short", "nocode"}

RowLists == UNION {[1..n -> RowKinds] : n \in 0..MaxRows}

\* an <h2 class="transcripts"> header: absent, or present with or without
\* an enclosing <div>, followed by the rows of its course table
NoSection == [present |-> FALSE, in_div |-> FALSE, rows |-> <<>>]

Sections ==
  {NoSection, [present |-> TRUE, in_div |-> FALSE, rows |-> <<>>]}
    \cup {[present |-> TRUE, in_div |-> TRUE, rows |-> r] : r \in RowLists}

\* response.text of the transcripts page (empty: the empty string)
EmptyPage == [empty |-> TRUE, fall |-> NoSection, spring |-> NoSection]

Pages == {EmptyPage} \cup {[empty |-> FALSE, fall |-> f, spring |-> sp] : f \in Sections, sp \in Sections}

\* None, as retry_request returns it
NoResponse == [status |-> 0, at_login |-> FALSE, inputs |-> {}, error_text |-> FALSE, page |-> EmptyPage]

\* a response without a body of interest
Bare(st) == [status |-> st, at_login |-> FALSE, inputs |-> {}, error_text |-> FALSE, page |-> EmptyPage]

\* the login form, with the hidden inputs it carries
LoginForms == {[Bare(200) EXCEPT !.at_login = TRUE, !.inputs = i] : i \in {{}, {"__VIEWSTATE"}, TokenNames}}

\* what the portal answers to the login POST: the page it redirects to, or
\* the login page again, with or without the credentials message
LoginAnswers == {[Bare(200) EXCEPT !.at_login = l, !.error_text = e] : l \in BOOLEAN, e \in BOOLEAN}

\* what the portal answers to the transcripts GET: the page, or a redirect
\* to the login page when the session is not valid
TranscriptAnswers ==
  {[Bare(200) EXCEPT !.page = pg] : pg \in Pages} \cup {[Bare(200) EXCEPT !.at_login = TRUE]}

ErrorStatuses == {401, 404, 500, 502, 503, 504}

\* exceptions session.get / session.post raise: two of the transport, and
\* one raised before anything is sent
Exceptions == {"ConnectionError", "Timeout", "InvalidURL"}

TransportExceptions == {"ConnectionError", "Timeout"}

Answers(m, u) ==
  {Bare(st) : st \in ErrorStatuses}
    \cup (IF m = "POST" THEN LoginAnswers
          ELSE IF u = LOGIN_URL THEN LoginForms ELSE TranscriptAnswers)

NoTokens == [is_none |-> TRUE, names |-> {}]

NoContent == [is_none |-> TRUE, page |-> EmptyPage]

NoResult == [is_none |-> TRUE, semester |-> "", courses |-> 0, is_target |-> FALSE, raised |-> FALSE]

\* pua_transcript_checker.py is not running
CheckerIdle ==
  /\ cpc = "idle"
  /\ rpc = "idle"
  /\ method = "GET"
  /\ url = LOGIN_URL
  /\ max_retries = DefaultMaxRetries
  /\ retry_attempt = 0
  /\ response = NoResponse
  /\ http_log = <<>>
  /\ tokens = NoTokens
  /\ html_content = NoContent
  /\ parsed = NoResult
  /\ steps = <<>>
  /\ telegram = FALSE
  /\ posts = <<>>
  /\ found = "none"

negotiatorLocals == <<dh_config, a, g_a>>

callVars == <<phone_call, request, discard, slept>>

platformVars == <<transient, platformDh, nextCallId>>

argVars == <<attempt, target_user, duration>>

\* ------------------------------------------------- reading the trace
Positions(op) == {i \in 1..Len(trace) : trace[i].op = op}

Count(op) == Cardinality(Positions(op))

CountOut(op, out) == Cardinality({i \in Positions(op) : trace[i].out = out})

\* position of the first occurrence of op in the trace (0: absent)
First(op) == IF Positions(op) = {} THEN 0 ELSE CHOOSE i \in Positions(op) : \A j \in Positions(op) : i <= j

\* position of the last occurrence of op in the trace (0: absent)
Last(op) == IF Positions(op) = {} THEN 0 ELSE CHOOSE i \in Positions(op) : \A j \in Positions(op) : j <= i

InitCommon ==
  /\ attempt = 0
  /\ target_user = "alice"
  /\ duration = 1
  /\ user = 0
  /\ dh_config = NoDh
  /\ a = 0
  /\ g_a = -1
  /\ g_a_hash = NoHash
  /\ phone_call = NoCall
  /\ request = NoRequest
  /\ discard = NoDiscard
  /\ trace = <<>>
  /\ slept = -1
  /\ reported = NoReport
  /\ result = "none"
  /\ nextCallId = 1

Init ==
  /\ InitCommon
  /\ CheckerIdle
  /\ pc = "idle"
  /\ transient \in [RpcKinds -> 0..MaxTransient]
  /\ platformDh \in RingDhConfigs


\* ------------------------------------------------------------ ring_phone
\* an exception raised inside the try block at `step`: the handler
\* `except Exception` prints it and returns False; the finally block follows
Raise(step, kind) ==
  /\ reported' = [at |-> step, exc |-> kind]
  /\ result' = "False"
  /\ pc' = "finally"

\* a cancellation that leaves ring_phone without running the finally block
CancelSkippingFinally ==
  /\ result' = "CancelledError"
  /\ pc' = "done"
  /\ UNCHANGED reported

\* asyncio.CancelledError is a BaseException: `except Exception` does not
\* catch it, the finally block runs and the exception leaves ring_phone
Cancel ==
  /\ result' = "CancelledError"
  /\ pc' = "finally"
  /\ UNCHANGED reported

\* one operation handed to the client or the event loop, and how it ended
Issue(op, out, secs) == trace' = Append(trace, [op |-> op, out |-> out, secs |-> secs])

\* the platform answers an invocation of RPC k with a transient failure
TransientFailure(k) ==
  /\ transient[k] > 0
  /\ transient' = [transient EXCEPT ![k] = @ - 1]

\* a controller that keeps its call handle and commitment between attempts
InvokeKeepingSession ==
  /\ pc \in {"idle", "done"}
  /\ attempt < MaxAttempts
  /\ attempt' = attempt + 1
  /\ \E t \in Targets : target_user' = t
  /\ \E d \in 0..MaxDuration : duration' = d
  /\ user' = 0
  /\ trace' = <<>>
  /\ slept' = -1
  /\ reported' = NoReport
  /\ result' = "none"
  /\ pc' = "start"
  /\ UNCHANGED <<checkerVars, negotiatorLocals, g_a_hash, phone_call, request, discard, platformVars>>

\* await ring_phone(target_user, duration): a fresh client and fresh locals
Invoke ==
  /\ pc \in {"idle", "done"}
  /\ attempt < MaxAttempts
  /\ attempt' = attempt + 1
  /\ \E t \in Targets : target_user' = t
  /\ \E d \in 0..MaxDuration : duration' = d
  /\ user' = 0
  /\ dh_config' = NoDh
  /\ a' = 0
  /\ g_a' = -1
  /\ g_a_hash' = NoHash
  /\ phone_call' = NoCall
  /\ request' = NoRequest
  /\ discard' = NoDiscard
  /\ trace' = <<>>
  /\ slept' = -1
  /\ reported' = NoReport
  /\ result' = "none"
  /\ pc' = "start"
  /\ UNCHANGED <<checkerVars, platformVars>>

\* await client.start()
ClientStart ==
  /\ pc = "start"
  /\ \/ /\ Issue("Start", "ok", 0)
        /\ pc' = "get_me"
        /\ UNCHANGED <<reported, result>>
     \/ /\ Issue("Start", "rejected", 0)
        /\ Raise("start", "Rejected")
  /\ UNCHANGED <<checkerVars, argVars, user, negotiatorLocals, g_a_hash, callVars, platformVars>>

\* me = await client.get_me()
GetMe ==
  /\ pc = "get_me"
  /\ \/ /\ Issue("GetMe", "ok", 0)
        /\ pc' = "get_entity"
        /\ UNCHANGED <<reported, result>>
     \/ /\ Issue("GetMe", "rejected", 0)
        /\ Raise("get_me", "Rejected")
  /\ UNCHANGED <<checkerVars, argVars, user, negotiatorLocals, g_a_hash, callVars, platformVars>>

\* a resolution failure that is swallowed instead of raised
GetEntityIgnoringFailure ==
  /\ pc = "get_entity"
  /\ \/ /\ target_user \notin Directory
        /\ Issue("ResolveIdentity", "not_found", 0)
     \/ /\ target_user \in Directory
        /\ Issue("ResolveIdentity", "ok", 0)
  /\ user' = UserId(target_user)
  /\ pc' = "fetch1"
  /\ UNCHANGED <<checkerVars, argVars, negotiatorLocals, g_a_hash, callVars, reported, result, platformVars>>

\* a controller that requests the call without negotiating
GetEntityThenRequest ==
  /\ pc = "get_entity"
  /\ \/ /\ target_user \notin Directory
        /\ Issue("ResolveIdentity", "not_found", 0)
        /\ Raise("get_entity", "NotFound")
        /\ UNCHANGED user
     \/ /\ target_user \in Directory
        /\ Issue("ResolveIdentity", "ok", 0)
        /\ user' = UserId(target_user)
        /\ pc' = "request"
        /\ UNCHANGED <<reported, result>>
  /\ UNCHANGED <<checkerVars, argVars, negotiatorLocals, g_a_hash, callVars, platformVars>>

\* user = await client.get_entity(target_user)
GetEntity ==
  /\ pc = "get_entity"
  /\ \/ /\ TransientFailure("ResolveIdentity")
        /\ Issue("ResolveIdentity", "transient", 0)
        /\ Raise("get_entity", "Transient")
        /\ UNCHANGED user
     \/ /\ transient["ResolveIdentity"] = 0
        /\ target_user \notin Directory
        /\ Issue("ResolveIdentity", "not_found", 0)
        /\ Raise("get_entity", "NotFound")
        /\ UNCHANGED <<user, transient>>
     \/ /\ transient["ResolveIdentity"] = 0
        /\ target_user \in Directory
        /\ Issue("ResolveIdentity", "ok", 0)
        /\ user' = UserId(target_user)
        /\ pc' = "fetch1"
        /\ UNCHANGED <<reported, result, transient>>
     \/ /\ Issue("ResolveIdentity", "cancelled", 0)
        /\ Cancel
        /\ UNCHANGED <<user, transient>>
  /\ UNCHANGED <<checkerVars, argVars, negotiatorLocals, g_a_hash, callVars, platformDh, nextCallId>>

\* the platform's answers to a successful GetDhConfigRequest
DhAnswers == {platformDh, NotModified}

DhOutcome(cfg) == IF cfg.kind = "DhConfigNotModified" THEN "not_modified" ELSE "ok"

\* get_g_a_hash: dh_config = await client(GetDhConfigRequest(version=0, ...))
FetchDh1 ==
  /\ pc = "fetch1"
  /\ \/ /\ TransientFailure("FetchDhParameters")
        /\ Issue("FetchDhParameters", "transient", 0)
        /\ Raise("fetch1", "Transient")
        /\ UNCHANGED dh_config
     \/ /\ transient["FetchDhParameters"] = 0
        /\ Issue("FetchDhParameters", "rejected", 0)
        /\ Raise("fetch1", "Rejected")
        /\ UNCHANGED <<dh_config, transient>>
     \/ /\ transient["FetchDhParameters"] = 0
        /\ \E cfg \in DhAnswers :
             /\ dh_config' = cfg
             /\ Issue("FetchDhParameters", DhOutcome(cfg), 0)
             /\ pc' = IF cfg.kind = "DhConfigNotModified" THEN "fetch2" ELSE "compute"
        /\ UNCHANGED <<reported, result, transient>>
     \/ /\ Issue("FetchDhParameters", "cancelled", 0)
        /\ Cancel
        /\ UNCHANGED <<dh_config, transient>>
  /\ UNCHANGED <<checkerVars, argVars, user, a, g_a, g_a_hash, callVars, platformDh, nextCallId>>

\* a negotiator that keeps fetching while the answer is not-modified
FetchDh2Retrying ==
  /\ pc = "fetch2"
  /\ \/ /\ TransientFailure("FetchDhParameters")
        /\ Issue("FetchDhParameters", "transient", 0)
        /\ Raise("fetch2", "Transient")
        /\ UNCHANGED dh_config
     \/ /\ transient["FetchDhParameters"] = 0
        /\ \E cfg \in DhAnswers :
             /\ dh_config' = cfg
             /\ Issue("FetchDhParameters", DhOutcome(cfg), 0)
             /\ pc' = IF cfg.kind = "DhConfigNotModified" /\ Len(trace) < 6 THEN "fetch2" ELSE "compute"
        /\ UNCHANGED <<reported, result, transient>>
  /\ UNCHANGED <<checkerVars, argVars, user, a, g_a, g_a_hash, callVars, platformDh, nextCallId>>

\* get_g_a_hash: the second GetDhConfigRequest, after DhConfigNotModified
FetchDh2 ==
  /\ pc = "fetch2"
  /\ \/ /\ TransientFailure("FetchDhParameters")
        /\ Issue("FetchDhParameters", "transient", 0)
        /\ Raise("fetch2", "Transient")
        /\ UNCHANGED dh_config
     \/ /\ transient["FetchDhParameters"] = 0
        /\ Issue("FetchDhParameters", "rejected", 0)
        /\ Raise("fetch2", "Rejected")
        /\ UNCHANGED <<dh_config, transient>>
     \/ /\ transient["FetchDhParameters"] = 0
        /\ \E cfg \in DhAnswers :
             /\ dh_config' = cfg
             /\ Issue("FetchDhParameters", DhOutcome(cfg), 0)
        /\ pc' = "compute"
        /\ UNCHANGED <<reported, result, transient>>
     \/ /\ Issue("FetchDhParameters", "cancelled", 0)
        /\ Cancel
        /\ UNCHANGED <<dh_config, transient>>
  /\ UNCHANGED <<checkerVars, argVars, user, a, g_a, g_a_hash, callVars, platformDh, nextCallId>>

\* dh_config.p / dh_config.g exist on DhConfig only
HasP(cfg) == cfg.kind = "DhConfig"

\* get_g_a_hash: p, a and g_a from dh_config and the random draw
ComputeSecret ==
  /\ pc = "compute"
  /\ \/ /\ ~HasP(dh_config)
        /\ Raise("compute", "AttributeError")
        /\ UNCHANGED <<a, g_a>>
     \/ /\ HasP(dh_config)
        /\ FromBytes(dh_config.p) = 1
        /\ Raise("compute", "ZeroDivisionError")
        /\ UNCHANGED <<a, g_a>>
     \/ /\ HasP(dh_config)
        /\ FromBytes(dh_config.p) = 0
        /\ Raise("compute", "ValueError")
        /\ UNCHANGED <<a, g_a>>
     \/ /\ HasP(dh_config)
        /\ FromBytes(dh_config.p) > 1
        /\ \E r \in RandomDraws :
             /\ a' = Secret(r, FromBytes(dh_config.p))
             /\ g_a' = ModPow(dh_config.g, a', FromBytes(dh_config.p))
        /\ pc' = "hash"
        /\ UNCHANGED <<reported, result>>
  /\ UNCHANGED <<checkerVars, argVars, user, dh_config, g_a_hash, callVars, trace, platformVars>>

\* get_g_a_hash: return sha256(g_a.to_bytes(len(p_bytes), "big")).digest();
\* g_a < p always fits the length of p_bytes
ReturnHash ==
  /\ pc = "hash"
  /\ ToBytesFits(g_a, Len(dh_config.p))
  /\ g_a_hash' = Sha256(ToBytes(g_a, Len(dh_config.p)))
  /\ pc' = "request"
  /\ dh_config' = NoDh
  /\ a' = 0
  /\ g_a' = -1
  /\ UNCHANGED <<checkerVars, argVars, user, callVars, trace, reported, result, platformVars>>

\* a controller that wraps RequestCall in a retry loop with 10s, 20s backoff
RequestCallWithRetry ==
  /\ pc = "request"
  /\ request' = [user_id |-> user, g_a_hash |-> g_a_hash, video |-> FALSE]
  /\ \/ /\ TransientFailure("RequestCall")
        /\ trace' = trace \o <<[op |-> "RequestCall", out |-> "transient", secs |-> 0],
                               [op |-> "Sleep", out |-> "ok", secs |-> 10 * (CountOut("RequestCall", "transient") + 1)]>>
        /\ UNCHANGED <<phone_call, nextCallId, reported, result, pc>>
     \/ /\ transient["RequestCall"] = 0
        /\ Issue("RequestCall", "rejected", 0)
        /\ Raise("request", "Rejected")
        /\ UNCHANGED <<phone_call, nextCallId, transient>>
     \/ /\ transient["RequestCall"] = 0
        /\ \E h \in 1..MaxAccessHash :
             phone_call' = [id |-> nextCallId, access_hash |-> h]
        /\ Issue("RequestCall", "ok", 0)
        /\ nextCallId' = nextCallId + 1
        /\ pc' = "sleep"
        /\ UNCHANGED <<reported, result, transient>>
  /\ UNCHANGED <<checkerVars, argVars, user, negotiatorLocals, g_a_hash, discard, slept, platformDh>>

\* a controller that swallows the platform's rejection and rings anyway
RequestCallIgnoringRejection ==
  /\ pc = "request"
  /\ request' = [user_id |-> user, g_a_hash |-> g_a_hash, video |-> FALSE]
  /\ \/ /\ Issue("RequestCall", "rejected", 0)
        /\ UNCHANGED <<phone_call, nextCallId>>
     \/ /\ \E h \in 1..MaxAccessHash :
             phone_call' = [id |-> nextCallId, access_hash |-> h]
        /\ Issue("RequestCall", "ok", 0)
        /\ nextCallId' = nextCallId + 1
  /\ pc' = "sleep"
  /\ UNCHANGED <<checkerVars, argVars, user, negotiatorLocals, g_a_hash, discard, slept, reported, result, transient, platformDh>>

\* result = await client(RequestCallRequest(user_id=user, g_a_hash=...))
RequestCall ==
  /\ pc = "request"
  /\ request' = [user_id |-> user, g_a_hash |-> g_a_hash, video |-> FALSE]
  /\ \/ /\ TransientFailure("RequestCall")
        /\ Issue("RequestCall", "transient", 0)
        /\ Raise("request", "Transient")
        /\ UNCHANGED <<phone_call, nextCallId>>
     \/ /\ transient["RequestCall"] = 0
        /\ Issue("RequestCall", "rejected", 0)
        /\ Raise("request", "Rejected")
        /\ UNCHANGED <<phone_call, nextCallId, transient>>
     \/ /\ transient["RequestCall"] = 0
        /\ \E h \in 1..MaxAccessHash :
             phone_call' = [id |-> nextCallId, access_hash |-> h]
        /\ Issue("RequestCall", "ok", 0)
        /\ nextCallId' = nextCallId + 1
        /\ pc' = "sleep"
        /\ UNCHANGED <<reported, result, transient>>
     \/ /\ Issue("RequestCall", "cancelled", 0)
        /\ Cancel
        /\ UNCHANGED <<phone_call, nextCallId, transient>>
  /\ UNCHANGED <<checkerVars, argVars, user, negotiatorLocals, g_a_hash, discard, slept, platformDh>>

\* a controller that discards at once, without letting the phone ring
RingWaitSkipped ==
  /\ pc = "sleep"
  /\ slept' = 0
  /\ pc' = "discard"
  /\ UNCHANGED <<checkerVars, argVars, user, negotiatorLocals, g_a_hash, phone_call, request, discard, trace, reported, result, platformVars>>

\* await asyncio.sleep(duration): runs to the end, or is cancelled earlier
RingWait ==
  /\ pc = "sleep"
  /\ \/ /\ slept' = duration
        /\ Issue("Sleep", "ok", duration)
        /\ pc' = "discard"
        /\ UNCHANGED <<reported, result>>
     \/ /\ \E t \in 0..(duration - 1) : slept' = t
        /\ Issue("Sleep", "cancelled", duration)
        /\ Cancel
  /\ UNCHANGED <<checkerVars, argVars, user, negotiatorLocals, g_a_hash, phone_call, request, discard, platformVars>>

\* a controller that repeats the discard after a transient failure
DiscardCallWithRetry ==
  /\ pc = "discard"
  /\ discard' = [peer |-> [id |-> phone_call.id, access_hash |-> phone_call.access_hash],
                 duration |-> 0, reason |-> "Hangup", connection_id |-> 0]
  /\ \/ /\ TransientFailure("DiscardCall")
        /\ Issue("DiscardCall", "transient", 0)
        /\ UNCHANGED <<pc, reported, result>>
     \/ /\ transient["DiscardCall"] = 0
        /\ Issue("DiscardCall", "ok", 0)
        /\ result' = "True"
        /\ pc' = "finally"
        /\ UNCHANGED <<reported, transient>>
  /\ UNCHANGED <<checkerVars, argVars, user, negotiatorLocals, g_a_hash, phone_call, request, slept, platformDh, nextCallId>>

\* await client(DiscardCallRequest(peer=InputPhoneCall(call_id, access_hash), ...))
DiscardCall ==
  /\ pc = "discard"
  /\ discard' = [peer |-> [id |-> phone_call.id, access_hash |-> phone_call.access_hash],
                 duration |-> 0, reason |-> "Hangup", connection_id |-> 0]
  /\ \/ /\ TransientFailure("DiscardCall")
        /\ Issue("DiscardCall", "transient", 0)
        /\ Raise("discard", "Transient")
     \/ /\ transient["DiscardCall"] = 0
        /\ Issue("DiscardCall", "rejected", 0)
        /\ Raise("discard", "Rejected")
        /\ UNCHANGED transient
     \/ /\ transient["DiscardCall"] = 0
        /\ Issue("DiscardCall", "ok", 0)
        /\ result' = "True"
        /\ pc' = "finally"
        /\ UNCHANGED <<reported, transient>>
     \/ /\ Issue("DiscardCall", "cancelled", 0)
        /\ Cancel
        /\ UNCHANGED transient
  /\ UNCHANGED <<checkerVars, argVars, user, negotiatorLocals, g_a_hash, phone_call, request, slept, platformDh, nextCallId>>

\* finally: await client.disconnect(); an exception raised here replaces
\* the pending return value or exception
Disconnect ==
  /\ pc = "finally"
  /\ \/ /\ Issue("Disconnect", "ok", 0)
        /\ UNCHANGED result
     \/ /\ Issue("Disconnect", "rejected", 0)
        /\ result' = "DisconnectError"
  /\ pc' = "done"
  /\ UNCHANGED <<checkerVars, argVars, user, negotiatorLocals, g_a_hash, callVars, reported, platformVars>>

Next ==
  \/ Invoke
  \/ ClientStart
  \/ GetMe
  \/ GetEntity
  \/ FetchDh1
  \/ FetchDh2
  \/ ComputeSecret
  \/ ReturnHash
  \/ RequestCall
  \/ RingWait
  \/ DiscardCall
  \/ Disconnect

Spec == Init /\ [][Next]_vars

\* ------------------------------------------------- get_g_a_hash alone
\* ring_phone has reached its call of get_g_a_hash; the platform serves any
\* p_bytes of PBits digits and any g of that width
InitNegotiate ==
  /\ attempt = 1
  /\ target_user = "alice"
  /\ duration = 1
  /\ user = UserId("alice")
  /\ dh_config = NoDh
  /\ a = 0
  /\ g_a = -1
  /\ g_a_hash = NoHash
  /\ phone_call = NoCall
  /\ request = NoRequest
  /\ discard = NoDiscard
  /\ trace = <<[op |-> "Start", out |-> "ok", secs |-> 0],
               [op |-> "GetMe", out |-> "ok", secs |-> 0],
               [op |-> "ResolveIdentity", out |-> "ok", secs |-> 0]>>
  /\ slept = -1
  /\ reported = NoReport
  /\ result = "none"
  /\ nextCallId = 1
  /\ CheckerIdle
  /\ pc = "fetch1"
  /\ transient \in {t \in [RpcKinds -> 0..MaxTransient] : \A k \in RpcKinds \ {"FetchDhParameters"} : t[k] = 0}
  /\ platformDh \in AllDhConfigs

NextNegotiate ==
  \/ FetchDh1
  \/ FetchDh2
  \/ ComputeSecret
  \/ ReturnHash

SpecNegotiate == InitNegotiate /\ [][NextNegotiate]_vars

TypeOK ==
  /\ pc \in {"idle", "start", "get_me", "get_entity", "fetch1", "fetch2", "compute", "hash",
             "request", "sleep", "discard", "finally", "done"}
  /\ attempt \in 0..MaxAttempts
  /\ result \in {"none", "True", "False", "CancelledError", "DisconnectError"}
  /\ slept \in -1..MaxDuration


\* ------------------------------------------- controller state and cause
\* the except handler has run: the controller is in its Failed state
Failed == reported # NoReport

\* the cause the handler reports, in the terms of the error taxonomy
Cause ==
  CASE reported.at \in {"fetch1", "fetch2", "compute", "hash"} -> "NegotiationFailed"
    [] reported.at = "get_entity" /\ reported.exc = "NotFound" -> "TargetNotFound"
    [] reported.at = "request" /\ reported.exc = "Rejected" -> "CallRequestRejected"
    [] reported.at = "discard" -> "DiscardFailure"
    [] OTHER -> reported.exc

Raised(op) == CountOut(op, "transient") + CountOut(op, "rejected") + CountOut(op, "not_found") > 0

DisconnectOk == Len(trace) > 0 /\ trace[Len(trace)] = [op |-> "Disconnect", out |-> "ok", secs |-> 0]

HandleDiscarded ==
  /\ Count("DiscardCall") > 0
  /\ phone_call # NoCall
  /\ discard.peer = phone_call
  /\ discard.duration = 0
  /\ discard.reason = "Hangup"

\* sleeps that lie between the first and the last RequestCall of the attempt
SleepsBetweenRequests ==
  LET between == SelectSeq(SubSeq(trace, First("RequestCall"), Last("RequestCall")), LAMBDA e : e.op = "Sleep")
  IN  [i \in 1..Len(between) |-> between[i].secs]

\* ------------------------------------------------------------------ C1
\* C1: whenever an attempt entered the ring-wait, by the time it ends a
\* DiscardCall has been issued for exactly the call_id and access_hash that
\* RequestCall returned, with duration 0 and reason hangup.
C1_DiscardAfterRinging ==
  (pc = "done" /\ Count("Sleep") > 0) => HandleDiscarded

\* ------------------------------------------------------------------ C2
\* C2: when the DiscardCall RPC fails after the ring-wait, the attempt still
\* ends Completed: ring_phone returns success.
C2_DiscardFailureStillCompleted ==
  (pc = "done" /\ Raised("DiscardCall") /\ DisconnectOk) => result = "True"

\* ------------------------------------------------------------------ C3
FetchFailures == {"not_modified", "transient", "rejected"}

\* two parameter fetches of this attempt failed, one after the other
FetchFailedTwice ==
  \E i, j \in Positions("FetchDhParameters") :
    /\ i < j
    /\ trace[i].out \in FetchFailures
    /\ trace[j].out \in FetchFailures

\* C3: when the DH parameter fetch fails twice in a row, no RequestCall is
\* issued in that attempt and the controller fails with NegotiationFailed:
\* the attempt never returns success, and returns False whenever the final
\* disconnect completes.
C3_NoRequestAfterTwoFetchFailures ==
  FetchFailedTwice =>
    /\ Count("RequestCall") = 0
    /\ pc \in {"compute", "finally", "done"}
    /\ pc # "compute" => (Failed /\ Cause = "NegotiationFailed" /\ result \in {"False", "DisconnectError"})
    /\ (pc = "done" /\ DisconnectOk) => result = "False"

C3_Witness ==
  /\ pc = "done"
  /\ CountOut("FetchDhParameters", "not_modified") = 2
  /\ Cause = "NegotiationFailed"
  /\ result = "False"

\* ------------------------------------------------------------------ C4
\* C4: when the ring-wait is cancelled before the duration has elapsed, a
\* DiscardCall for the stored call handle is issued right after it.
C4_CancelledWaitDiscards ==
  (pc = "done" /\ CountOut("Sleep", "cancelled") > 0) =>
    /\ HandleDiscarded
    /\ Last("DiscardCall") = Last("Sleep") + 1

\* ------------------------------------------------------------------ C5
\* C5: ring_phone never raises past its boundary: every attempt ends by
\* returning True or False.
C5_NeverRaises ==
  pc = "done" => result \in {"True", "False"}

\* ------------------------------------------------------------------ C6
\* the platform was set to fail RequestCall transiently twice, then answer
RequestFailsTwiceThenAnswers ==
  /\ attempt = 1
  /\ Count("RequestCall") > 0
  /\ transient["RequestCall"] + CountOut("RequestCall", "transient") = 2

Completed == CountOut("DiscardCall", "ok") = 1

\* the task was cancelled at one of its awaits
Cancelled == \E i \in 1..Len(trace) : trace[i].out = "cancelled"

C8_TargetNotFound ==
  CountOut("ResolveIdentity", "not_found") > 0 =>
    /\ Count("RequestCall") = 0
    /\ Count("DiscardCall") = 0
    /\ Count("FetchDhParameters") = 0
    /\ Failed
    /\ Cause = "TargetNotFound"
    /\ result \in {"False", "DisconnectError"}
    /\ (pc = "done" /\ DisconnectOk) => result = "False"

C8_Witness ==
  /\ pc = "done"
  /\ target_user \notin Directory
  /\ CountOut("ResolveIdentity", "not_found") = 1
  /\ Cause = "TargetNotFound"
  /\ result = "False"

\* ------------------------------------------------------------------ C9
\* p is odd with its high bit set
PrimeShaped(pb) == Len(pb) > 0 /\ pb[1] = 1 /\ pb[Len(pb)] = 1

ValidDh(cfg) ==
  /\ PrimeShaped(cfg.p)
  /\ 2 <= cfg.g
  /\ cfg.g <= FromBytes(cfg.p) - 2

\* C9: when the p/g the platform supplied fail the validity checks (such as
\* g in {0, 1, p-1}), negotiation returns no commitment hash, fails with
\* NegotiationFailed, and no RequestCall is issued.
C9_InvalidParametersRejected ==
  (CountOut("FetchDhParameters", "ok") > 0 /\ ~ValidDh(platformDh)) =>
    /\ g_a_hash = NoHash
    /\ Count("RequestCall") = 0
    /\ pc \in {"finally", "done"} => Cause = "NegotiationFailed"

\* ----------------------------------------------------------------- C10
RECURSIVE Gcd(_, _)
Gcd(x, y) == IF y = 0 THEN x ELSE Gcd(y, x % y)

\* the negotiator has drawn a and computed g_a from valid-shaped (p, g)
SecretDrawn ==
  /\ pc = "hash"
  /\ PrimeShaped(dh_config.p)
  /\ 2 <= dh_config.g
  /\ dh_config.g <= FromBytes(dh_config.p) - 2

\* C10 as stated: for prime-shaped p and g in [2, p-2], 1 <= a <= p-1 and
\* 0 < g_a < p.
C10_PublicValuePositive ==
  SecretDrawn =>
    /\ 1 <= a /\ a <= FromBytes(dh_config.p) - 1
    /\ 0 < g_a /\ g_a < FromBytes(dh_config.p)

\* C10 amended: for prime-shaped p and g in [2, p-2], 1 <= a <= p-1 and
\* 0 <= g_a < p; g_a > 0 whenever g and p are coprime, in particular
\* whenever p is prime.
C10_SecretAndPublicValueInRange ==
  SecretDrawn =>
    /\ 1 <= a /\ a <= FromBytes(dh_config.p) - 1
    /\ 0 <= g_a /\ g_a < FromBytes(dh_config.p)
    /\ Gcd(dh_config.g, FromBytes(dh_config.p)) = 1 => 0 < g_a
    /\ g_a = ModPow(dh_config.g, a, FromBytes(dh_config.p))

C10_Witness ==
  /\ SecretDrawn
  /\ a = FromBytes(dh_config.p) - 1
  /\ Gcd(dh_config.g, FromBytes(dh_config.p)) = 1
  /\ g_a > 0


\* ----------------------------------------------------------------- C11
\* every operation of the attempt so far succeeded on its first try
AllSucceeded == \A i \in 1..Len(trace) : trace[i].out = "ok"

HappyPath == <<"Start", "GetMe", "ResolveIdentity", "FetchDhParameters", "RequestCall",
               "Sleep", "DiscardCall", "Disconnect">>

\* what the end-to-end scenario expects of the attempt so far
EndToEndExpectation ==
  /\ Len(trace) <= Len(HappyPath)
  /\ \A i \in 1..Len(trace) : trace[i].op = HappyPath[i]
  /\ Count("ResolveIdentity") = 1 => user = UserId(target_user)
  /\ Count("RequestCall") = 1 => (request.user_id = UserId(target_user) /\ request.g_a_hash = g_a_hash /\ g_a_hash.set)
  /\ Count("Sleep") = 1 => (slept = duration /\ trace[Last("Sleep")].secs = duration)
  /\ Count("DiscardCall") = 1 => (HandleDiscarded /\ result = "True")
  /\ pc = "done" => (Len(trace) = Len(HappyPath) /\ result = "True")

UsableModulus == FromBytes(platformDh.p) > 1

C16_RejectionIsFatal ==
  CountOut("RequestCall", "rejected") > 0 =>
    /\ Count("RequestCall") = 1
    /\ Count("Sleep") = 0
    /\ slept = -1
    /\ Count("DiscardCall") = 0
    /\ phone_call = NoCall
    /\ reported = [at |-> "request", exc |-> "Rejected"]
    /\ Cause = "CallRequestRejected"
    /\ result \in {"False", "DisconnectError"}
    /\ (pc = "done" /\ DisconnectOk) => result = "False"

C16_Witness ==
  /\ pc = "done"
  /\ CountOut("RequestCall", "rejected") = 1
  /\ Cause = "CallRequestRejected"
  /\ result = "False"

\* ----------------------------------------------------------------- C17
\* C17: a negotiation issues at most two parameter fetches, and a second
\* one is issued if and only if the first answer was not-modified.
C17_SecondFetchIffNotModified ==
  /\ Count("FetchDhParameters") <= 2
  /\ Count("FetchDhParameters") = 2 => trace[First("FetchDhParameters")].out = "not_modified"
  /\ (Count("FetchDhParameters") = 1 /\ trace[First("FetchDhParameters")].out = "not_modified") => pc = "fetch2"
  /\ pc = "fetch2" => (Count("FetchDhParameters") = 1 /\ trace[Len(trace)] = [op |-> "FetchDhParameters", out |-> "not_modified", secs |-> 0])

C17_Witness ==
  /\ Count("FetchDhParameters") = 2
  /\ trace[First("FetchDhParameters")].out = "not_modified"
  /\ trace[Last("FetchDhParameters")].out = "ok"
  /\ Count("RequestCall") = 1

\* ----------------------------------------------------------------- C18
\* C18: client.disconnect() is invoked exactly once on every exit path of an
\* attempt (success, a failed operation, cancellation), never before the
\* attempt leaves its try block, and it is the attempt's last operation.
C18_DisconnectOnceAndLast ==
  /\ pc = "done" => (Count("Disconnect") = 1 /\ trace[Len(trace)].op = "Disconnect")
  /\ pc \notin {"idle", "done"} => Count("Disconnect") = 0
  /\ pc = "finally" <=> (attempt > 0 /\ result # "none" /\ Count("Disconnect") = 0)

C18_Witness ==
  /\ pc = "done"
  /\ CountOut("Sleep", "cancelled") = 1
  /\ Count("Disconnect") = 1
  /\ trace[Len(trace)].op = "Disconnect"

\* ----------------------------------------------------------------- C19
\* C19: in every attempt at most one RequestCall and at most one DiscardCall
\* are issued; a DiscardCall is issued only after the RequestCall of the
\* same attempt succeeded and the ring-wait ran to its end, and it always
\* carries the call handle that RequestCall returned.
C19_AtMostOneCall ==
  /\ Count("RequestCall") <= 1
  /\ Count("DiscardCall") <= 1
  /\ Count("DiscardCall") = 1 =>
       /\ CountOut("RequestCall", "ok") = 1
       /\ CountOut("Sleep", "ok") = 1
       /\ Last("RequestCall") < Last("Sleep")
       /\ Last("Sleep") < Last("DiscardCall")
       /\ phone_call # NoCall
       /\ discard.peer = phone_call
  /\ Count("DiscardCall") = 0 => discard = NoDiscard
  /\ CountOut("RequestCall", "ok") = 0 => phone_call = NoCall

C19_Witness ==
  /\ pc = "done"
  /\ Count("RequestCall") = 1
  /\ CountOut("DiscardCall", "transient") = 1
  /\ discard.peer = phone_call
  /\ phone_call.id = 1


\* ----------------------------------------------------------------- C12
\* C12: every attempt is independent of the earlier ones: it starts without
\* a handle, secret or commitment; the commitment its RequestCall carries
\* was computed in this attempt, after this attempt's own parameter fetch;
\* the handle it holds is the one the platform created for this attempt's
\* RequestCall, and its DiscardCall carries that handle.
C12_AttemptsIndependent ==
  /\ CountOut("FetchDhParameters", "ok") = 0 =>
       (dh_config.kind # "DhConfig" /\ a = 0 /\ g_a = -1 /\ g_a_hash = NoHash)
  /\ g_a_hash # NoHash => pc \notin {"start", "get_me", "get_entity", "fetch1", "fetch2", "compute", "hash"}
  /\ Count("RequestCall") = 0 => (request = NoRequest /\ phone_call = NoCall)
  /\ Count("RequestCall") > 0 =>
       /\ CountOut("FetchDhParameters", "ok") = 1
       /\ Last("FetchDhParameters") < First("RequestCall")
       /\ request.g_a_hash = g_a_hash
       /\ g_a_hash.set
  /\ CountOut("RequestCall", "ok") = 0 => phone_call = NoCall
  /\ CountOut("RequestCall", "ok") > 0 => phone_call.id = nextCallId - 1
  /\ Count("DiscardCall") = 0 => discard = NoDiscard
  /\ Count("DiscardCall") > 0 => (discard.peer = phone_call /\ discard.peer.id = nextCallId - 1)
  /\ nextCallId <= attempt + 1

C12_Witness ==
  /\ attempt = 2
  /\ pc = "done"
  /\ CountOut("DiscardCall", "ok") = 1
  /\ discard.peer.id = 2
  /\ phone_call.id = 2


\* ======================================================================
\* pua_transcript_checker.py
\* ======================================================================

\* ------------------------------------------------------- retry_request
\* response.status_code in [503, 502, 500]
Retryable(st) == st \in {503, 502, 500}

\* wait_time = (attempt + 1) * 10
WaitTime(att) == (att + 1) * 10

\* truth value of a requests.Response (response.ok); None is false
Truthy(r) == r # NoResponse /\ r.status < 400

Attempted(m, u, out, st, wait) == [method |-> m, url |-> u, outcome |-> out, status |-> st, wait_time |-> wait]

\* a loop body that waits 10 seconds after every failure
RetryAttemptFlatBackoff ==
  /\ rpc = "loop"
  /\ retry_attempt < max_retries
  /\ \/ \E e \in Exceptions :
          /\ http_log' = Append(http_log, Attempted(method, url, e, 0, 10))
          /\ retry_attempt' = retry_attempt + 1
          /\ UNCHANGED <<rpc, response>>
     \/ \E r \in Answers(method, url) :
          IF Retryable(r.status)
            THEN /\ http_log' = Append(http_log, Attempted(method, url, "response", r.status, 10))
                 /\ retry_attempt' = retry_attempt + 1
                 /\ UNCHANGED <<rpc, response>>
            ELSE /\ http_log' = Append(http_log, Attempted(method, url, "response", r.status, 0))
                 /\ response' = r
                 /\ rpc' = "returned"
                 /\ UNCHANGED retry_attempt
  /\ UNCHANGED <<method, url, max_retries, checkVars, ringVars>>

\* one pass of `for attempt in range(max_retries)`: the request, and the
\* sleep that follows a 500/502/503 response or a raised exception
RetryAttempt ==
  /\ rpc = "loop"
  /\ retry_attempt < max_retries
  /\ \/ \E e \in Exceptions :
          /\ http_log' = Append(http_log, Attempted(method, url, e, 0, WaitTime(retry_attempt)))
          /\ retry_attempt' = retry_attempt + 1
          /\ UNCHANGED <<rpc, response>>
     \/ \E r \in Answers(method, url) :
          IF Retryable(r.status)
            THEN /\ http_log' = Append(http_log, Attempted(method, url, "response", r.status, WaitTime(retry_attempt)))
                 /\ retry_attempt' = retry_attempt + 1
                 /\ UNCHANGED <<rpc, response>>
            ELSE /\ http_log' = Append(http_log, Attempted(method, url, "response", r.status, 0))
                 /\ response' = r
                 /\ rpc' = "returned"
                 /\ UNCHANGED retry_attempt
  /\ UNCHANGED <<method, url, max_retries, checkVars, ringVars>>

\* the loop is over: return None
RetryExhausted ==
  /\ rpc = "loop"
  /\ retry_attempt >= max_retries
  /\ response' = NoResponse
  /\ rpc' = "returned"
  /\ UNCHANGED <<method, url, max_retries, retry_attempt, http_log, checkVars, ringVars>>

\* telegram_ring.py is not running
RingIdle ==
  /\ InitCommon
  /\ pc = "idle"
  /\ transient = [k \in RpcKinds |-> 0]
  /\ platformDh = [kind |-> "DhConfig", p |-> ToBytes(11, PBits), g |-> 2]

\* retry_request alone, called with any method, url and max_retries
InitRetry ==
  /\ RingIdle
  /\ cpc = "idle"
  /\ rpc = "loop"
  /\ method \in {"GET", "POST"}
  /\ url \in {LOGIN_URL, TRANSCRIPT_URL}
  /\ max_retries \in 0..MaxRetries
  /\ retry_attempt = 0
  /\ response = NoResponse
  /\ http_log = <<>>
  /\ tokens = NoTokens
  /\ html_content = NoContent
  /\ parsed = NoResult
  /\ steps = <<>>
  /\ telegram = FALSE
  /\ posts = <<>>
  /\ found = "none"

NextRetry ==
  \/ RetryAttempt
  \/ RetryExhausted

SpecRetry == InitRetry /\ [][NextRetry]_vars

\* ----------------------------------------------------- check_transcript
\* retry_request(session, m, u, ...) with the default max_retries
CallRetry(m, u) ==
  /\ rpc' = "loop"
  /\ method' = m
  /\ url' = u
  /\ max_retries' = DefaultMaxRetries
  /\ retry_attempt' = 0
  /\ response' = NoResponse
  /\ http_log' = <<>>

Step(name, ok) == steps' = Append(steps, [step |-> name, ok |-> ok])

\* check_transcript returns v
Return(v) ==
  /\ cpc' = "done"
  /\ found' = v

\* check_transcript is called (by main, once or in its loop) and calls
\* get_login_tokens
CheckTranscript ==
  /\ cpc \in {"idle", "done"}
  /\ rpc \in {"idle", "returned"}
  /\ cpc' = "tokens"
  /\ tokens' = NoTokens
  /\ html_content' = NoContent
  /\ parsed' = NoResult
  /\ steps' = <<>>
  /\ posts' = <<>>
  /\ found' = "none"
  /\ CallRetry("GET", LOGIN_URL)
  /\ UNCHANGED <<telegram, ringVars>>

\* a check that logs in whatever get_login_tokens returned
GetLoginTokensUngated ==
  /\ cpc = "tokens"
  /\ rpc = "returned"
  /\ tokens' = IF ~Truthy(response) \/ response.status # 200
                 THEN NoTokens
                 ELSE [is_none |-> FALSE, names |-> response.inputs \cap TokenNames]
  /\ Step("get_login_tokens", ~tokens'.is_none /\ tokens'.names # {})
  /\ cpc' = "login"
  /\ CallRetry("POST", LOGIN_URL)
  /\ UNCHANGED <<html_content, parsed, telegram, posts, found, ringVars>>

\* get_login_tokens returns; `if not tokens: return False`, else login is called
GetLoginTokens ==
  /\ cpc = "tokens"
  /\ rpc = "returned"
  /\ tokens' = IF ~Truthy(response) \/ response.status # 200
                 THEN NoTokens
                 ELSE [is_none |-> FALSE, names |-> response.inputs \cap TokenNames]
  /\ Step("get_login_tokens", ~tokens'.is_none /\ tokens'.names # {})
  /\ IF tokens'.is_none \/ tokens'.names = {}
       THEN /\ Return("False")
            /\ UNCHANGED retryVars
       ELSE /\ cpc' = "login"
            /\ CallRetry("POST", LOGIN_URL)
            /\ UNCHANGED found
  /\ UNCHANGED <<html_content, parsed, telegram, posts, ringVars>>

\* value returned by login for the response of the POST
LoginResult(r) ==
  IF ~Truthy(r) THEN FALSE
  ELSE IF r.status = 200 THEN ~(r.at_login /\ r.error_text)
  ELSE FALSE

\* login returns; `if not login(...): return False`, else get_transcripts is called
Login ==
  /\ cpc = "login"
  /\ rpc = "returned"
  /\ Step("login", LoginResult(response))
  /\ IF LoginResult(response)
       THEN /\ cpc' = "transcripts"
            /\ CallRetry("GET", TRANSCRIPT_URL)
            /\ UNCHANGED found
       ELSE /\ Return("False")
            /\ UNCHANGED retryVars
  /\ UNCHANGED <<tokens, html_content, parsed, telegram, posts, ringVars>>

\* value returned by get_transcripts for the response of the GET
TranscriptsResult(r) ==
  IF ~Truthy(r) \/ r.status # 200 THEN NoContent
  ELSE IF r.at_login THEN NoContent
  ELSE [is_none |-> FALSE, page |-> r.page]

\* get_transcripts returns; `if not html_content: return False`
GetTranscripts ==
  /\ cpc = "transcripts"
  /\ rpc = "returned"
  /\ html_content' = TranscriptsResult(response)
  /\ Step("get_transcripts", ~html_content'.is_none /\ ~html_content'.page.empty)
  /\ IF html_content'.is_none \/ html_content'.page.empty
       THEN Return("False")
       ELSE /\ cpc' = "parse"
            /\ UNCHANGED found
  /\ UNCHANGED <<retryVars, tokens, parsed, telegram, posts, ringVars>>

\* extract_semester_data: the rows of at least four cells whose code is not
\* empty; without an enclosing div, parent_div.find_next_siblings raises
ExtractCourses(sec) ==
  IF sec.in_div THEN Cardinality({i \in DOMAIN sec.rows : sec.rows[i] = "course"}) ELSE 0

ExtractRaises(sec) == ~sec.in_div

\* parse_transcript_courses: 2025 Fall first, 2025 Spring as the fallback
ParseTranscriptCourses(pg) ==
  IF pg.fall.present
    THEN [is_none |-> FALSE, semester |-> "2025 Fall", courses |-> ExtractCourses(pg.fall),
          is_target |-> TRUE, raised |-> ExtractRaises(pg.fall)]
  ELSE IF pg.spring.present
    THEN [is_none |-> FALSE, semester |-> "2025 Spring", courses |-> ExtractCourses(pg.spring),
          is_target |-> FALSE, raised |-> ExtractRaises(pg.spring)]
  ELSE NoResult

\* parse_transcript_courses returns or raises; `if result and result['courses']`
ParseTranscript ==
  /\ cpc = "parse"
  /\ parsed' = ParseTranscriptCourses(html_content.page)
  /\ Step("parse_transcript_courses", ~parsed'.raised /\ ~parsed'.is_none /\ parsed'.courses > 0)
  /\ IF parsed'.raised \/ parsed'.is_none \/ parsed'.courses = 0
       THEN Return("False")
       ELSE /\ cpc' = "notify"
            /\ UNCHANGED found
  /\ UNCHANGED <<retryVars, tokens, html_content, telegram, posts, ringVars>>

\* what requests.post to the bot API ends in: 200, another status, an exception
TelegramOutcomes == {"sent", "refused", "error"}

\* send_telegram_notification, then `return True` for the target semester
\* and `return False` for the fallback
Notify ==
  /\ cpc = "notify"
  /\ IF telegram
       THEN \E o \in TelegramOutcomes :
              /\ posts' = Append(posts, o)
              /\ Step("send_telegram_notification", o = "sent")
       ELSE /\ UNCHANGED posts
            /\ Step("send_telegram_notification", FALSE)
  /\ Return(IF parsed.is_target THEN "True" ELSE "False")
  /\ UNCHANGED <<retryVars, tokens, html_content, parsed, telegram, ringVars>>

InitCheck ==
  /\ RingIdle
  /\ cpc = "idle"
  /\ rpc = "idle"
  /\ method = "GET"
  /\ url = LOGIN_URL
  /\ max_retries = DefaultMaxRetries
  /\ retry_attempt = 0
  /\ response = NoResponse
  /\ http_log = <<>>
  /\ tokens = NoTokens
  /\ html_content = NoContent
  /\ parsed = NoResult
  /\ steps = <<>>
  /\ telegram \in BOOLEAN
  /\ posts = <<>>
  /\ found = "none"

NextCheck ==
  \/ CheckTranscript
  \/ RetryAttempt
  \/ RetryExhausted
  \/ GetLoginTokens
  \/ Login
  \/ GetTranscripts
  \/ ParseTranscript
  \/ Notify

SpecCheck == InitCheck /\ [][NextCheck]_vars


\* ------------------------------------------------------------ C13, C15
\* the i-th invocation failed transiently in the sense of the retry loop:
\* a 500/502/503 response or a raised exception
TransientAt(i) == http_log[i].outcome # "response" \/ http_log[i].status \in {500, 502, 503}

\* the i-th invocation ended in a failure that is neither a 5xx response
\* nor an exception of the transport
NonTransientFailureAt(i) ==
  \/ http_log[i].outcome = "response" /\ http_log[i].status >= 400 /\ http_log[i].status < 500
  \/ http_log[i].outcome \in Exceptions \ TransportExceptions

\* C13: a failure that is neither a 5xx response nor a transport-level
\* exception is not retried: it is the last invocation, no sleep follows
\* it, and the caller receives the failure at once.
C13_NonTransientNotRetried ==
  \A i \in 1..Len(http_log) :
    NonTransientFailureAt(i) =>
      /\ i = Len(http_log)
      /\ http_log[i].wait_time = 0
      /\ rpc = "returned"
      /\ response # NoResponse

\* C15: retry_request makes at most max_retries invocations; the i-th
\* transient failure (a 500/502/503 response or a raised exception) is
\* followed by a sleep of 10*i seconds; the first response that is not
\* 500/502/503 is returned without a further invocation or sleep; None is
\* returned exactly when all max_retries invocations failed transiently.
C15_BoundedLinearBackoff ==
  /\ Len(http_log) <= max_retries
  /\ \A i \in 1..Len(http_log) :
       /\ http_log[i].method = method /\ http_log[i].url = url
       /\ TransientAt(i) => http_log[i].wait_time = 10 * i
       /\ ~TransientAt(i) =>
            /\ http_log[i].wait_time = 0
            /\ i = Len(http_log)
            /\ rpc = "returned"
            /\ response.status = http_log[i].status
            /\ response # NoResponse
  /\ rpc = "returned" =>
       (response = NoResponse <=>
          (Len(http_log) = max_retries /\ \A i \in 1..Len(http_log) : TransientAt(i)))

C15_Witness ==
  /\ rpc = "returned"
  /\ max_retries = 3
  /\ response = NoResponse
  /\ Len(http_log) = 3
  /\ http_log[1].status = 503 /\ http_log[1].wait_time = 10
  /\ http_log[2].outcome = "Timeout" /\ http_log[2].wait_time = 20
  /\ http_log[3].status = 500 /\ http_log[3].wait_time = 30


\* ------------------------------------------------------------ C14, C20
\* the steps of check_transcript, in the order of its body
StepOrder == <<"get_login_tokens", "login", "get_transcripts", "parse_transcript_courses",
               "send_telegram_notification">>

\* token fetch, login and transcript fetch have succeeded
FetchesSucceeded == Len(steps) >= 3 /\ \A i \in 1..3 : steps[i].ok

\* C14: check_transcript returns True if 2025 Fall is found: when the three
\* fetches succeed and the page has a '2025 Fall' section the result is
\* True, and it is False in every other case.
C14_TrueIffFallFound ==
  cpc = "done" =>
    (found = "True" <=> (FetchesSucceeded /\ html_content.page.fall.present))

\* C20: the steps of a check run in the fixed order, each only after the
\* one before it succeeded; the first failure ends the check with False;
\* the login POST is issued only with a non-empty token set, the
\* transcripts GET only after a successful login, parsing only with a page;
\* at most one notification, and only for a result with a course.
C20_GatedOrder ==
  /\ Len(steps) <= Len(StepOrder)
  /\ \A i \in 1..Len(steps) : steps[i].step = StepOrder[i]
  /\ \A i \in 1..Len(steps) : (i < Len(steps) /\ i < 5) => steps[i].ok
  /\ cpc = "login" => (Len(steps) = 1 /\ steps[1].ok /\ ~tokens.is_none /\ tokens.names # {})
  /\ cpc = "transcripts" => (Len(steps) = 2 /\ steps[2].ok)
  /\ cpc = "parse" => (Len(steps) = 3 /\ steps[3].ok /\ ~html_content.is_none /\ ~html_content.page.empty)
  /\ cpc = "notify" => (Len(steps) = 4 /\ steps[4].ok)
  /\ (rpc # "idle" /\ method = "POST") => (Len(steps) >= 1 /\ steps[1].ok /\ tokens.names # {})
  /\ (rpc # "idle" /\ url = TRANSCRIPT_URL) => (Len(steps) >= 2 /\ steps[2].ok)
  /\ ~parsed.is_none => (Len(steps) >= 4 /\ steps[3].ok)
  /\ Len(posts) <= 1
  /\ (Len(steps) = 5 \/ posts # <<>>) => (~parsed.is_none /\ ~parsed.raised /\ parsed.courses >= 1)
  /\ cpc = "done" =>
       /\ Len(steps) >= 1
       /\ (Len(steps) < 5 => (~steps[Len(steps)].ok /\ found = "False"))
       /\ (Len(steps) = 5 => found = (IF parsed.is_target THEN "True" ELSE "False"))
  /\ cpc \notin {"idle", "done"} => found = "none"

C20_Witness ==
  /\ cpc = "done"
  /\ Len(steps) = 5
  /\ posts = <<"sent">>
  /\ parsed.courses = 1
  /\ found = "True"

====
